---- MODULE Spec2Model ----
(***************************************************************************)
(* Model of the request-authentication layer of alx-backend-user-data:     *)
(* the path-exclusion policy (Auth.require_auth), the strategy selection   *)
(* and request filter of api/v1/app.py, and the session stores             *)
(* (SessionAuth, SessionExpAuth, SessionDBAuth), the BasicAuth credential  *)
(* chain, the login view and the bcrypt password helpers.                  *)
(*                                                                         *)
(* Python strings are TLA+ strings; Python None is the value None.         *)
(* Regular expressions are modelled for the sub-language the exclusion     *)
(* patterns can produce here: literal characters, '.', and a postfix '*'.  *)
(***************************************************************************)
EXTENDS Integers, Sequences, FiniteSets, TLC

VARIABLES
    AUTH_TYPE,              \* environment option read at import, app.py:31
    auth,                   \* the strategy object built from it, app.py:30-41
    session_duration,       \* SessionExpAuth.session_duration
    now,                    \* datetime.now(), in whole seconds
    user_id_by_session_id,  \* the in-memory mapping of the SessionAuth family
    db,                     \* the durable UserSession records, in storage order
    issued,                 \* every session id uuid4 has produced so far
    destroyed,              \* session ids whose destroy_session returned True
    SESSION_DURATION,       \* environment option read by SessionExpAuth()
    last,                   \* outcome of the operation handled last
    path,                   \* require_auth argument (path policy checks)
    exclusion,              \* the single exclusion pattern under check
    outcome,                \* what require_auth(path, [exclusion]) did
    user_records,           \* the stored User records, in storage order
    fault,                  \* the collaborator call that raises, or "none"
    collision,              \* an issued id uuid4 is about to repeat, or None
    fn,                     \* the BasicAuth method under check
    arg,                    \* its argument
    ret,                    \* what it returned
    threads                 \* the concurrent calls in progress

vars == <<AUTH_TYPE, auth, SESSION_DURATION, session_duration, now,
          user_id_by_session_id, db, issued, destroyed, last, path, exclusion,
          outcome, user_records, fault, collision, fn, arg, ret, threads>>

None == "None"

----------------------------------------------------------------------------
(* Bounds *)

MaxPathLen == 3
MaxPatternLen == 3
MaxTime == 2
MaxSessions == 2
MaxTokenLen == 4
MaxTextLen == 5
MaxThreads == 2
MaxPlainLen == 2
MaxDigests == 2

----------------------------------------------------------------------------
(* Strings *)

PathChars == {"/", "a", "b"}
PatternChars == {"/", "a", "b", ".", "*", " "}

RECURSIVE StringsUpTo(_, _)
StringsUpTo(chars, n) ==
    IF n = 0 THEN {""}
    ELSE LET shorter == StringsUpTo(chars, n - 1)
         IN  shorter \cup {s \o c : s \in shorter, c \in chars}

StartsWith(s, prefix) ==
    /\ Len(prefix) <= Len(s)
    /\ SubSeq(s, 1, Len(prefix)) = prefix

LastChar(s) == SubSeq(s, Len(s), Len(s))

ButLast(s) == SubSeq(s, 1, Len(s) - 1)

\* the whitespace characters strings hold here
Whitespace == {" ", "\n"}

\* str.strip()
RECURSIVE LStrip(_)
LStrip(s) ==
    IF s # "" /\ SubSeq(s, 1, 1) \in Whitespace THEN LStrip(Tail(s)) ELSE s

RECURSIVE RStrip(_)
RStrip(s) ==
    IF s # "" /\ LastChar(s) \in Whitespace THEN RStrip(ButLast(s)) ELSE s

Strip(s) == RStrip(LStrip(s))

----------------------------------------------------------------------------
(* re.match for patterns made of literals, '.', ' ' and postfix '*' *)

\* re.compile raises re.error ("nothing to repeat" / "multiple repeat")
RECURSIVE ReValid(_)
ReValid(p) ==
    IF p = "" THEN TRUE
    ELSE IF Head(p) = "*" THEN FALSE
    ELSE IF Len(p) >= 2 /\ SubSeq(p, 2, 2) = "*" THEN ReValid(SubSeq(p, 3, Len(p)))
    ELSE ReValid(Tail(p))

CharMatches(atom, c) == atom = "." \/ atom = c

\* TRUE iff the valid pattern p matches some prefix of s (re.match anchors
\* at the start only)
RECURSIVE ReMatch(_, _)
ReMatch(p, s) ==
    IF p = "" THEN TRUE
    ELSE IF Len(p) >= 2 /\ SubSeq(p, 2, 2) = "*"
         THEN \/ ReMatch(SubSeq(p, 3, Len(p)), s)
              \/ /\ s # ""
                 /\ CharMatches(Head(p), Head(s))
                 /\ ReMatch(p, Tail(s))
         ELSE /\ s # ""
              /\ CharMatches(Head(p), Head(s))
              /\ ReMatch(Tail(p), Tail(s))

----------------------------------------------------------------------------
(* Auth.require_auth *)

\* the regular expression built from one stripped exclusion string
ExclusionRegexSlashRequired(exclusion_path) ==
    IF LastChar(exclusion_path) = "*" THEN ButLast(exclusion_path) \o ".*"
    ELSE IF LastChar(exclusion_path) = "/" THEN ButLast(exclusion_path) \o "/*"
    ELSE exclusion_path \o "/"

ExclusionRegex(exclusion_path) ==
    IF LastChar(exclusion_path) = "*" THEN ButLast(exclusion_path) \o ".*"
    ELSE IF LastChar(exclusion_path) = "/" THEN ButLast(exclusion_path) \o "/*"
    ELSE exclusion_path \o "/*"

\* "True" / "False" are the returned booleans; "IndexError" and "re.error"
\* are the exceptions the loop body can raise
RECURSIVE RequireAuthLoop(_, _)
RequireAuthLoop(p, excluded_paths) ==
    IF excluded_paths = <<>> THEN "True"
    ELSE LET exclusion_path == Strip(Head(excluded_paths))
         IN  IF exclusion_path = "" THEN "IndexError"
             ELSE IF ~ReValid(ExclusionRegex(exclusion_path)) THEN "re.error"
             ELSE IF ReMatch(ExclusionRegex(exclusion_path), p) THEN "False"
             ELSE RequireAuthLoop(p, Tail(excluded_paths))

require_auth(p, excluded_paths) ==
    IF p # None /\ excluded_paths # None
    THEN RequireAuthLoop(p, excluded_paths)
    ELSE "True"

----------------------------------------------------------------------------
(* Configuration and strategy selection, api/v1/app.py *)

\* values AUTH_TYPE can hold; None is "variable not set"
AuthTypeValues ==
    {None, "auth", "basic_auth", "session_auth", "session_exp_auth",
     "session_db_auth", "none", "basic", "session", "session_exp",
     "session_db"}

\* values SESSION_DURATION can hold; None is "variable not set"
DurationValues == {None, "-1", "1", "abc"}

Getenv(value, default) == IF value = None THEN default ELSE value

\* the chain of ifs at module import; "NoAuth" is auth = None
SelectAuthWithoutSessionDB(auth_type) ==
    IF auth_type = "session_exp_auth" THEN "SessionExpAuth"
    ELSE IF auth_type = "session_auth" THEN "SessionAuth"
    ELSE IF auth_type = "basic_auth" THEN "BasicAuth"
    ELSE IF auth_type = "auth" THEN "Auth"
    ELSE "NoAuth"

SelectAuth(auth_type) ==
    IF auth_type = "session_db_auth" THEN "SessionDBAuth"
    ELSE IF auth_type = "session_exp_auth" THEN "SessionExpAuth"
    ELSE IF auth_type = "session_auth" THEN "SessionAuth"
    ELSE IF auth_type = "basic_auth" THEN "BasicAuth"
    ELSE IF auth_type = "auth" THEN "Auth"
    ELSE "NoAuth"

\* int(os.getenv('SESSION_DURATION', '0')), 0 when int() raises
ParseDuration(value) ==
    LET text == Getenv(value, "0")
    IN  IF text = "-1" THEN -1
        ELSE IF text = "0" THEN 0
        ELSE IF text = "1" THEN 1
        ELSE 0

SessionStrategies == {"SessionAuth", "SessionExpAuth", "SessionDBAuth"}
ExpiringStrategies == {"SessionExpAuth", "SessionDBAuth"}

\* cookie name carrying the session id (SESSION_NAME)
SESSION_NAME == "_my_session_id"

\* the exclusion list of the request filter
excluded_paths ==
    << "/api/v1/status/", "/api/v1/unauthorized/", "/api/v1/forbidden/",
       "/api/v1/auth_session/login/" >>

----------------------------------------------------------------------------
(* Collaborators: the user records *)

UserIds == {"u1", "u2"}

\* the stored users, in storage order: id, email and password
UserTable == <<[id |-> "u1", email |-> "bob@hbtn.io", password |-> "pwd1"]>>

\* the storage calls that can be made to raise
Faults ==
    {"none", "User.search", "UserSession.search", "UserSession.save",
     "UserSession.remove"}

\* User.get(user_id); the user is denoted by its id
UserGet(user_id) ==
    IF \E i \in 1..Len(user_records) : user_records[i].id = user_id
    THEN user_id
    ELSE None

\* User.search({'email': email})
UserSearch(email) == SelectSeq(user_records, LAMBDA u : u.email = email)

\* user.is_valid_password(pwd)
is_valid_password(user, pwd) == user.password = pwd

----------------------------------------------------------------------------
(* Requests *)

\* request=None, the default argument of the methods taking a request
NoRequest == [none |-> TRUE]

\* request.cookies.get(name)
CookieGet(cookies, name) ==
    IF name \in DOMAIN cookies THEN cookies[name] ELSE None

\* Auth.authorization_header
authorization_header(request) ==
    IF request # NoRequest THEN request.Authorization ELSE None

\* Auth.session_cookie
session_cookie(request) ==
    IF request # NoRequest THEN CookieGet(request.cookies, SESSION_NAME)
    ELSE None

----------------------------------------------------------------------------
(* The in-memory mapping *)

\* an assignment that writes back a mapping holding the new entry alone
PutAlone(mapping, key, value) == [k \in {key} |-> value]

\* mapping[key] = value: one dict store, atomic in the interpreter
Put(mapping, key, value) ==
    [k \in DOMAIN mapping \cup {key} |-> IF k = key THEN value ELSE mapping[k]]

Del(mapping, key) == [k \in DOMAIN mapping \ {key} |-> mapping[k]]

\* str(uuid4()): an id that was never produced before, unless the generator
\* is about to repeat one
uuid4 ==
    IF collision # None THEN collision
    ELSE "s" \o ToString(Cardinality(issued) + 1)

SessionIds == {"s" \o ToString(n) : n \in 1..MaxSessions}

----------------------------------------------------------------------------
(* SessionAuth: the in-memory base strategy *)

SessionAuth_create_session(user_id) ==
    IF user_id # None
    THEN [session_id |-> uuid4,
          mapping |-> Put(user_id_by_session_id, uuid4,
                          [kind |-> "str", user_id |-> user_id])]
    ELSE [session_id |-> None, mapping |-> user_id_by_session_id]

SessionAuth_user_id_for_session_id(session_id) ==
    IF session_id # None /\ session_id \in DOMAIN user_id_by_session_id
    THEN user_id_by_session_id[session_id].user_id
    ELSE None

----------------------------------------------------------------------------
(* SessionExpAuth *)

SessionExpAuth_create_session(user_id) ==
    LET base == SessionAuth_create_session(user_id)
    IN  IF base.session_id = None
        THEN [session_id |-> None, mapping |-> base.mapping]
        ELSE [session_id |-> base.session_id,
              mapping |-> Put(base.mapping, base.session_id,
                              [kind |-> "dict", user_id |-> user_id,
                               created_at |-> now])]

SessionExpAuth_user_id_for_session_idExpiresAtDeadline(session_id) ==
    IF session_id \in DOMAIN user_id_by_session_id
    THEN LET session_dict == user_id_by_session_id[session_id]
         IN  IF session_duration <= 0
             THEN IF session_dict.kind = "dict" THEN session_dict.user_id
                  ELSE "TypeError"
             ELSE IF session_dict.kind # "dict" THEN None
             ELSE IF session_dict.created_at + session_duration <= now THEN None
             ELSE session_dict.user_id
    ELSE None

SessionExpAuth_user_id_for_session_idInverted(session_id) ==
    IF session_id \in DOMAIN user_id_by_session_id
    THEN LET session_dict == user_id_by_session_id[session_id]
         IN  IF session_duration <= 0
             THEN IF session_dict.kind = "dict" THEN session_dict.user_id
                  ELSE "TypeError"
             ELSE IF session_dict.kind # "dict" THEN None
             ELSE IF session_dict.created_at + session_duration > now THEN None
             ELSE session_dict.user_id
    ELSE None

SessionExpAuth_user_id_for_session_id(session_id) ==
    IF session_id \in DOMAIN user_id_by_session_id
    THEN LET session_dict == user_id_by_session_id[session_id]
         IN  IF session_duration <= 0
             THEN IF session_dict.kind = "dict" THEN session_dict.user_id
                  ELSE "TypeError"
             ELSE IF session_dict.kind # "dict" THEN None
             ELSE IF session_dict.created_at + session_duration < now THEN None
             ELSE session_dict.user_id
    ELSE None

----------------------------------------------------------------------------
(* SessionDBAuth and the durable UserSession records *)

\* UserSession.search({'session_id': session_id})
Search(records, session_id) ==
    SelectSeq(records, LAMBDA r : r.session_id = session_id)

\* record.remove()
RECURSIVE Remove(_, _)
Remove(records, record) ==
    IF records = <<>> THEN <<>>
    ELSE IF Head(records) = record THEN Tail(records)
    ELSE <<Head(records)>> \o Remove(Tail(records), record)

\* raised is None when the call returns, and the exception otherwise
SessionDBAuth_create_sessionUnsaved(user_id) ==
    LET created == SessionExpAuth_create_session(user_id)
    IN  [session_id |-> created.session_id, mapping |-> created.mapping,
         db |-> db, raised |-> None]

SessionDBAuth_create_session(user_id) ==
    LET created == SessionExpAuth_create_session(user_id)
    IN  IF created.session_id # None
        THEN IF fault = "UserSession.save"
             THEN [session_id |-> None, mapping |-> created.mapping,
                   db |-> db, raised |-> "Exception"]
             ELSE [session_id |-> created.session_id,
                   mapping |-> created.mapping,
                   db |-> Append(db, [session_id |-> created.session_id,
                                      user_id |-> user_id,
                                      created_at |-> now]),
                   raised |-> None]
        ELSE [session_id |-> None, mapping |-> created.mapping, db |-> db,
              raised |-> None]

\* a lookup left to the inherited in-memory mapping
SessionDBAuth_user_id_for_session_idInMemory(session_id) ==
    SessionExpAuth_user_id_for_session_id(session_id)

SessionDBAuth_user_id_for_session_id(session_id) ==
    IF fault = "UserSession.search" THEN None
    ELSE LET sessions == Search(db, session_id)
         IN  IF Len(sessions) <= 0 THEN None
             ELSE IF sessions[1].created_at + session_duration < now THEN None
             ELSE sessions[1].user_id

SessionDBAuth_destroy_sessionKeepsRecord(request) ==
    LET session_id == session_cookie(request)
        sessions == Search(db, session_id)
    IN  IF fault = "UserSession.search" \/ Len(sessions) <= 0
        THEN [result |-> FALSE, db |-> db, raised |-> None]
        ELSE [result |-> TRUE, db |-> db, raised |-> None]

SessionDBAuth_destroy_session(request) ==
    LET session_id == session_cookie(request)
        sessions == Search(db, session_id)
    IN  IF fault = "UserSession.search" \/ Len(sessions) <= 0
        THEN [result |-> FALSE, db |-> db, raised |-> None]
        ELSE IF fault = "UserSession.remove"
        THEN [result |-> FALSE, db |-> db, raised |-> "Exception"]
        ELSE [result |-> TRUE, db |-> Remove(db, sessions[1]),
              raised |-> None]

----------------------------------------------------------------------------
(* Dispatch on the active strategy *)

create_session(user_id) ==
    IF auth = "SessionDBAuth" THEN SessionDBAuth_create_session(user_id)
    ELSE IF auth = "SessionExpAuth"
    THEN [session_id |-> SessionExpAuth_create_session(user_id).session_id,
          mapping |-> SessionExpAuth_create_session(user_id).mapping,
          db |-> db, raised |-> None]
    ELSE [session_id |-> SessionAuth_create_session(user_id).session_id,
          mapping |-> SessionAuth_create_session(user_id).mapping,
          db |-> db, raised |-> None]

user_id_for_session_id(session_id) ==
    IF auth = "SessionDBAuth" THEN SessionDBAuth_user_id_for_session_id(session_id)
    ELSE IF auth = "SessionExpAuth"
    THEN SessionExpAuth_user_id_for_session_id(session_id)
    ELSE SessionAuth_user_id_for_session_id(session_id)

\* SessionAuth.destroy_session, inherited by SessionExpAuth
SessionAuth_destroy_session(request) ==
    LET session_id == session_cookie(request)
        user_id == user_id_for_session_id(session_id)
    IN  IF request = NoRequest \/ session_id = None \/ user_id = None
        THEN [result |-> FALSE, mapping |-> user_id_by_session_id]
        ELSE [result |-> TRUE, mapping |-> Del(user_id_by_session_id, session_id)]

destroy_session(request) ==
    IF auth = "SessionDBAuth"
    THEN [result |-> SessionDBAuth_destroy_session(request).result,
          mapping |-> user_id_by_session_id,
          db |-> SessionDBAuth_destroy_session(request).db,
          raised |-> SessionDBAuth_destroy_session(request).raised]
    ELSE [result |-> SessionAuth_destroy_session(request).result,
          mapping |-> SessionAuth_destroy_session(request).mapping,
          db |-> db, raised |-> None]

----------------------------------------------------------------------------
(* BasicAuth *)

\* the characters of code points 32..95 and of 97..125, in order
PrintableLow ==
    " !\"#$%&'()*+,-./0123456789:;<=>?@ABCDEFGHIJKLMNOPQRSTUVWXYZ[\\]^_"

PrintableHigh == "abcdefghijklmnopqrstuvwxyz{|}"

\* strings hold ASCII characters only: this one stands for e-acute
\* (U+00E9), the character outside ASCII that texts and tokens hold here
EAcute == "~"

IndexIn(table, c) == CHOOSE i \in 1..Len(table) : SubSeq(table, i, i) = c

IsIn(table, c) == \E i \in 1..Len(table) : SubSeq(table, i, i) = c

\* ord(c) for the characters texts hold here
Ord(c) ==
    IF c = "\n" THEN 10
    ELSE IF c = EAcute THEN 233
    ELSE IF IsIn(PrintableLow, c) THEN 31 + IndexIn(PrintableLow, c)
    ELSE 96 + IndexIn(PrintableHigh, c)

\* chr(n); a code point with no character here is written \u<n>
Chr(n) ==
    IF n = 10 THEN "\n"
    ELSE IF n = 233 THEN EAcute
    ELSE IF n \in 32..95 THEN SubSeq(PrintableLow, n - 31, n - 31)
    ELSE IF n \in 97..125 THEN SubSeq(PrintableHigh, n - 96, n - 96)
    ELSE "\\u" \o ToString(n)

\* str.encode('utf-8'), as a sequence of bytes
RECURSIVE Utf8Encode(_)
Utf8Encode(text) ==
    IF text = "" THEN <<>>
    ELSE LET n == Ord(SubSeq(text, 1, 1))
             first == IF n < 128 THEN <<n>>
                      ELSE IF n < 2048
                      THEN <<192 + (n \div 64), 128 + (n % 64)>>
                      ELSE <<224 + (n \div 4096), 128 + ((n \div 64) % 64),
                             128 + (n % 64)>>
         IN  first \o Utf8Encode(Tail(text))

Continuation(b) == b \in 128..191

\* bytes.decode('utf-8'): the text, or "UnicodeDecodeError"
RECURSIVE Utf8Decode(_)
Utf8Decode(bytes) ==
    IF bytes = <<>> THEN ""
    ELSE LET b == bytes[1]
             size == IF b < 128 THEN 1
                     ELSE IF b \in 194..223 THEN 2
                     ELSE IF b \in 224..239 THEN 3
                     ELSE IF b \in 240..244 THEN 4
                     ELSE 0
             wellFormed ==
                 /\ size > 0
                 /\ Len(bytes) >= size
                 /\ \A i \in 2..size : Continuation(bytes[i])
                 /\ b = 224 => bytes[2] >= 160
                 /\ b = 237 => bytes[2] <= 159
                 /\ b = 240 => bytes[2] >= 144
                 /\ b = 244 => bytes[2] <= 143
             n == IF size = 1 THEN b
                  ELSE IF size = 2 THEN (b - 192) * 64 + (bytes[2] - 128)
                  ELSE IF size = 3
                  THEN (b - 224) * 4096 + (bytes[2] - 128) * 64
                           + (bytes[3] - 128)
                  ELSE (b - 240) * 262144 + (bytes[2] - 128) * 4096
                           + (bytes[3] - 128) * 64 + (bytes[4] - 128)
         IN  IF ~wellFormed THEN "UnicodeDecodeError"
             ELSE LET rest == Utf8Decode(SubSeq(bytes, size + 1, Len(bytes)))
                  IN  IF rest = "UnicodeDecodeError" THEN rest
                      ELSE Chr(n) \o rest

B64Alphabet ==
    "ABCDEFGHIJKLMNOPQRSTUVWXYZabcdefghijklmnopqrstuvwxyz0123456789+/"

B64Digit(c) == IndexIn(B64Alphabet, c) - 1

B64Char(n) == SubSeq(B64Alphabet, n + 1, n + 1)

\* base64.b64encode(bytes).decode()
RECURSIVE b64encode(_)
b64encode(bytes) ==
    IF bytes = <<>> THEN ""
    ELSE IF Len(bytes) = 1
    THEN B64Char(bytes[1] \div 4) \o B64Char((bytes[1] % 4) * 16) \o "=="
    ELSE IF Len(bytes) = 2
    THEN B64Char(bytes[1] \div 4)
             \o B64Char((bytes[1] % 4) * 16 + (bytes[2] \div 16))
             \o B64Char((bytes[2] % 16) * 4) \o "="
    ELSE B64Char(bytes[1] \div 4)
             \o B64Char((bytes[1] % 4) * 16 + (bytes[2] \div 16))
             \o B64Char((bytes[2] % 16) * 4 + (bytes[3] \div 64))
             \o B64Char(bytes[3] % 64)
             \o b64encode(SubSeq(bytes, 4, Len(bytes)))

\* what the base64 decoder gives in place of bytes when it raises
BinasciiError == <<-1>>
ValueError == <<-2>>

RECURSIVE AllIn(_, _)
AllIn(table, text) ==
    text = "" \/ (IsIn(table, SubSeq(text, 1, 1)) /\ AllIn(table, Tail(text)))

\* binascii.a2b_base64(token, strict_mode=True) after quads full quads were
\* read: the bytes, or BinasciiError
RECURSIVE a2b_base64(_, _)
a2b_base64(token, quads) ==
    IF token = "" THEN <<>>
    ELSE IF AllIn("=", token)
    THEN IF quads > 0 THEN <<>> ELSE BinasciiError
    ELSE IF Len(token) < 4 THEN BinasciiError
    ELSE LET d1 == B64Digit(SubSeq(token, 1, 1))
             d2 == B64Digit(SubSeq(token, 2, 2))
             d3 == B64Digit(SubSeq(token, 3, 3))
             d4 == B64Digit(SubSeq(token, 4, 4))
             byte1 == d1 * 4 + (d2 \div 16)
             byte2 == (d2 % 16) * 16 + (d3 \div 4)
             byte3 == (d3 % 4) * 64 + d4
         IN  IF ~AllIn(B64Alphabet, SubSeq(token, 1, 2))
             THEN BinasciiError
             ELSE IF SubSeq(token, 3, Len(token)) = "=="
             THEN <<byte1>>
             ELSE IF ~IsIn(B64Alphabet, SubSeq(token, 3, 3))
             THEN BinasciiError
             ELSE IF SubSeq(token, 4, Len(token)) = "="
             THEN <<byte1, byte2>>
             ELSE IF ~IsIn(B64Alphabet, SubSeq(token, 4, 4))
             THEN BinasciiError
             ELSE LET rest == a2b_base64(SubSeq(token, 5, Len(token)),
                                         quads + 1)
                  IN  IF rest = BinasciiError THEN rest
                      ELSE <<byte1, byte2, byte3>> \o rest

\* base64.b64decode(token, validate=True): a str token is first encoded as
\* ASCII, which raises ValueError for any other character
b64decode(token) ==
    IF ~AllIn(PrintableLow \o PrintableHigh \o "\n", token) THEN ValueError
    ELSE a2b_base64(token, 0)

\* '.' of a regular expression matches no line break
RECURSIVE NoLineBreak(_)
NoLineBreak(text) ==
    text = "" \/ (SubSeq(text, 1, 1) # "\n" /\ NoLineBreak(Tail(text)))

extract_base64_authorization_headerUntrimmed(header) ==
    IF header # None /\ StartsWith(header, "Basic ")
                     /\ Len(header) > Len("Basic ")
                     /\ NoLineBreak(SubSeq(header, Len("Basic ") + 1,
                                           Len(header)))
    THEN SubSeq(header, Len("Basic ") + 1, Len(header))
    ELSE None

\* re.fullmatch(r'Basic (?P<token>.+)', header.strip())
extract_base64_authorization_header(header) ==
    IF header # None /\ StartsWith(Strip(header), "Basic ")
                     /\ Len(Strip(header)) > Len("Basic ")
                     /\ NoLineBreak(SubSeq(Strip(header), Len("Basic ") + 1,
                                           Len(Strip(header))))
    THEN SubSeq(Strip(header), Len("Basic ") + 1, Len(Strip(header)))
    ELSE None

\* "ValueError" is the exception the except clause does not name: it
\* reaches the caller
decode_base64_authorization_header(token) ==
    IF token = None THEN None
    ELSE LET res == b64decode(token)
         IN  IF res = ValueError THEN "ValueError"
             ELSE IF res = BinasciiError THEN None
             ELSE LET text == Utf8Decode(res)
                  IN  IF text = "UnicodeDecodeError" THEN None ELSE text

RECURSIVE FirstColon(_, _)
FirstColon(s, i) ==
    IF i > Len(s) THEN 0
    ELSE IF SubSeq(s, i, i) = ":" THEN i
    ELSE FirstColon(s, i + 1)

RECURSIVE LastColon(_, _)
LastColon(s, i) ==
    IF i < 1 THEN 0
    ELSE IF SubSeq(s, i, i) = ":" THEN i
    ELSE LastColon(s, i - 1)

extract_user_credentialsLastColon(decoded) ==
    IF decoded = None THEN <<None, None>>
    ELSE LET text == Strip(decoded)
             colon == LastColon(text, Len(text))
         IN  IF colon > 1 /\ colon < Len(text)
                /\ NoLineBreak(SubSeq(text, colon + 1, Len(text)))
             THEN <<SubSeq(text, 1, colon - 1), SubSeq(text, colon + 1, Len(text))>>
             ELSE <<None, None>>

\* re.fullmatch(r'(?P<user>[^:]+):(?P<password>.+)', decoded.strip())
extract_user_credentials(decoded) ==
    IF decoded = None THEN <<None, None>>
    ELSE LET text == Strip(decoded)
             colon == FirstColon(text, 1)
         IN  IF colon > 1 /\ colon < Len(text)
                /\ NoLineBreak(SubSeq(text, colon + 1, Len(text)))
             THEN <<SubSeq(text, 1, colon - 1), SubSeq(text, colon + 1, Len(text))>>
             ELSE <<None, None>>

\* the user is denoted by its id
user_object_from_credentials(user_email, user_pwd) ==
    IF user_email # None /\ user_pwd # None
    THEN IF fault = "User.search" THEN None
         ELSE LET users == UserSearch(user_email)
              IN  IF Len(users) <= 0 THEN None
                  ELSE IF is_valid_password(users[1], user_pwd)
                  THEN users[1].id
                  ELSE None
    ELSE None

\* the header of a request, through the four steps of the chain; an
\* exception raised by a step ends the call
BasicAuth_current_user(request) ==
    LET auth_header == authorization_header(request)
        b64_auth_token == extract_base64_authorization_header(auth_header)
        auth_token == decode_base64_authorization_header(b64_auth_token)
        credentials == extract_user_credentials(auth_token)
    IN  IF auth_token = "ValueError" THEN "ValueError"
        ELSE user_object_from_credentials(credentials[1], credentials[2])

\* SessionAuth.current_user
SessionAuth_current_user(request) ==
    LET user_id == user_id_for_session_id(session_cookie(request))
    IN  IF user_id = "TypeError" THEN "TypeError" ELSE UserGet(user_id)

current_user(request) ==
    IF auth = "Auth" THEN None
    ELSE IF auth = "BasicAuth" THEN BasicAuth_current_user(request)
    ELSE SessionAuth_current_user(request)

----------------------------------------------------------------------------
(* The login view, POST /api/v1/auth_session/login *)

\* len(text.strip()) == 0 for a form field, None when the field is absent
Blank(text) == text = None \/ Strip(text) = ""

\* the answer when no session is created and no cookie is set
Refused(status) ==
    [status |-> status, called |-> FALSE, cookie |-> None,
     mapping |-> user_id_by_session_id, db |-> db]

\* the answer of the view after auth.create_session(user_id)
Granted(user_id) ==
    [status |-> "200", called |-> TRUE,
     cookie |-> create_session(user_id).session_id,
     mapping |-> create_session(user_id).mapping,
     db |-> create_session(user_id).db]

loginUnverified(email, password) ==
    IF Blank(email) THEN Refused("400")
    ELSE IF Blank(password) THEN Refused("400")
    ELSE IF fault = "User.search" THEN Refused("404")
    ELSE IF Len(UserSearch(email)) <= 0 THEN Refused("404")
    ELSE Granted(UserSearch(email)[1].id)

login(email, password) ==
    IF Blank(email) THEN Refused("400")
    ELSE IF Blank(password) THEN Refused("400")
    ELSE IF fault = "User.search" THEN Refused("404")
    ELSE IF Len(UserSearch(email)) <= 0 THEN Refused("404")
    ELSE IF is_valid_password(UserSearch(email)[1], password)
    THEN Granted(UserSearch(email)[1].id)
    ELSE Refused("401")

----------------------------------------------------------------------------
(* The request filter, app.before_request *)

\* the paths requests are made to
RequestPaths == {"/api/v1/status", "/api/v1/statuses", "/api/v1/users"}

\* the paths of the exclusion list as requests spell them: as listed, with
\* something after them, and without the trailing slash
ExcludedRequestPaths ==
    UNION {{excluded_paths[i], excluded_paths[i] \o "x",
            ButLast(excluded_paths[i])} : i \in DOMAIN excluded_paths}

\* auth.require_auth(request.path, excluded_paths), evaluated once per path
FilterRequireAuth ==
    [p \in RequestPaths \cup ExcludedRequestPaths |->
        require_auth(p, excluded_paths)]

authenticate_userForbiddenFirst(request) ==
    IF auth # "NoAuth"
    THEN IF FilterRequireAuth[request.path] = "True"
         THEN LET user == current_user(request)
              IN  IF user \in {"TypeError", "ValueError"}
                  THEN [consulted |-> TRUE, status |-> "500", current_user |-> None]
                  ELSE IF user = None
                  THEN [consulted |-> TRUE, status |-> "403", current_user |-> None]
                  ELSE IF authorization_header(request) = None
                          /\ session_cookie(request) = None
                  THEN [consulted |-> TRUE, status |-> "401", current_user |-> None]
                  ELSE [consulted |-> TRUE, status |-> "next", current_user |-> user]
         ELSE [consulted |-> FALSE, status |-> "next", current_user |-> None]
    ELSE [consulted |-> FALSE, status |-> "next", current_user |-> None]

\* a filter that asks for credentials on every path
authenticate_userEveryPath(request) ==
    IF auth # "NoAuth"
    THEN LET user == current_user(request)
         IN  IF user \in {"TypeError", "ValueError"}
             THEN [consulted |-> TRUE, status |-> "500", current_user |-> None]
             ELSE IF authorization_header(request) = None
                     /\ session_cookie(request) = None
             THEN [consulted |-> TRUE, status |-> "401", current_user |-> None]
             ELSE IF user = None
             THEN [consulted |-> TRUE, status |-> "403", current_user |-> None]
             ELSE [consulted |-> TRUE, status |-> "next", current_user |-> user]
    ELSE [consulted |-> FALSE, status |-> "next", current_user |-> None]

authenticate_user(request) ==
    IF auth # "NoAuth"
    THEN IF FilterRequireAuth[request.path] = "True"
         THEN LET user == current_user(request)
              IN  IF user \in {"TypeError", "ValueError"}
                  THEN [consulted |-> TRUE, status |-> "500", current_user |-> None]
                  ELSE IF authorization_header(request) = None
                          /\ session_cookie(request) = None
                  THEN [consulted |-> TRUE, status |-> "401", current_user |-> None]
                  ELSE IF user = None
                  THEN [consulted |-> TRUE, status |-> "403", current_user |-> None]
                  ELSE [consulted |-> TRUE, status |-> "next", current_user |-> user]
         ELSE [consulted |-> FALSE, status |-> "next", current_user |-> None]
    ELSE [consulted |-> FALSE, status |-> "next", current_user |-> None]

----------------------------------------------------------------------------
(* Inputs *)

\* no header, the right and a wrong password for the stored user, and a
\* token holding a character outside ASCII
AuthorizationHeaders ==
    {None, "Basic Ym9iQGhidG4uaW86cHdkMQ==", "Basic Ym9iQGhidG4uaW86bm9wZQ==",
     "Basic " \o EAcute}

CookieJars ==
    {<<>>} \cup {[name \in {SESSION_NAME} |-> value] :
                    value \in SessionIds}

Requests ==
    [path : RequestPaths, Authorization : AuthorizationHeaders,
     cookies : CookieJars]

\* the session strategies read the session cookie and never the content
\* of the Authorization header, only whether there is one
SessionRequests ==
    [path : RequestPaths,
     Authorization : {None, "Basic Ym9iQGhidG4uaW86cHdkMQ=="},
     cookies : CookieJars]

LogoutRequests ==
    {NoRequest} \cup [path : {"/api/v1/auth_session/logout"},
                      Authorization : {None}, cookies : CookieJars]

Paths == StringsUpTo(PathChars, MaxPathLen)
Patterns == StringsUpTo(PatternChars, MaxPatternLen)

\* what can follow the scheme word in an Authorization header
HeaderTokenChars == {"Y", "=", " ", "\n"}
HeaderTokens == StringsUpTo(HeaderTokenChars, MaxTokenLen)
Schemes == {"Basic ", "Bearer ", " Basic ", "Basic"}
Headers == {None} \cup {scheme \o t : scheme \in Schemes, t \in HeaderTokens}

\* candidate base64 tokens: alphabet characters, padding, a character
\* outside the alphabet and one outside ASCII
TokenChars == {"Y", "Q", "R", "/", "w", "=", " ", EAcute}
Tokens == {None} \cup StringsUpTo(TokenChars, MaxTokenLen)

\* decoded texts
TextChars == {"a", ":", " ", "\n", EAcute}
Texts == StringsUpTo(TextChars, MaxTextLen)

\* the User tables a lookup by email can meet: no user, one user, and two
\* users sharing an email
UserTables ==
    {<<>>, UserTable,
     UserTable \o <<[id |-> "u2", email |-> "bob@hbtn.io",
                     password |-> "pwd2"]>>}

\* headers sent to BasicAuth.current_user
CredentialHeaders ==
    AuthorizationHeaders
        \cup {"Bearer Ym9iQGhidG4uaW86cHdkMQ==", "Basic /w==",
              "Basic " \o b64encode(Utf8Encode("bob@hbtn.io:pwd2"))}

----------------------------------------------------------------------------
(* The server: one process, one strategy, requests handled one at a time *)

Init ==
    /\ AUTH_TYPE \in AuthTypeValues
    /\ auth = SelectAuth(Getenv(AUTH_TYPE, "auth"))
    /\ SESSION_DURATION \in
           (IF auth \in ExpiringStrategies THEN DurationValues ELSE {None})
    /\ session_duration =
           (IF auth \in ExpiringStrategies THEN ParseDuration(SESSION_DURATION)
            ELSE 0)
    /\ now = 0
    /\ user_id_by_session_id = <<>>
    /\ db = <<>>
    /\ issued = {}
    /\ destroyed = {}
    /\ last = [op |-> "init"]
    /\ path = ""
    /\ exclusion = ""
    /\ outcome = "unused"
    /\ user_records = UserTable
    /\ fault = "none"
    /\ collision = None
    /\ fn = "unused"
    /\ arg = None
    /\ ret = None
    /\ threads = <<>>

Config == <<AUTH_TYPE, auth, SESSION_DURATION, session_duration>>
PathVars == <<path, exclusion, outcome>>
BasicVars == <<fn, arg, ret>>
Storage == <<user_records, fault>>

\* a call of auth.create_session(user_id)
CreateSession(user_id) ==
    /\ auth \in SessionStrategies
    /\ Cardinality(issued) < MaxSessions \/ collision # None
    /\ LET created == create_session(user_id)
       IN  /\ user_id_by_session_id' = created.mapping
           /\ db' = created.db
           /\ issued' = issued \cup DOMAIN created.mapping
           /\ last' = [op |-> "create_session", user_id |-> user_id,
                       result |-> created.session_id,
                       raised |-> created.raised]
    /\ collision' = None
    /\ UNCHANGED <<Config, now, destroyed, PathVars, BasicVars, Storage,
                   threads>>

\* a lookup that purges the session it finds unusable
UserIdForSessionIdPurging(session_id) ==
    /\ auth \in SessionStrategies
    /\ last' = [op |-> "user_id_for_session_id", session_id |-> session_id,
                result |-> user_id_for_session_id(session_id)]
    /\ IF user_id_for_session_id(session_id) = None
       THEN /\ user_id_by_session_id' =
                   IF session_id \in DOMAIN user_id_by_session_id
                   THEN Del(user_id_by_session_id, session_id)
                   ELSE user_id_by_session_id
            /\ db' = SelectSeq(db, LAMBDA r : r.session_id # session_id)
       ELSE UNCHANGED <<user_id_by_session_id, db>>
    /\ UNCHANGED <<Config, now, issued, destroyed, PathVars, BasicVars,
                   Storage, collision, threads>>

\* a call of auth.user_id_for_session_id(session_id)
UserIdForSessionId(session_id) ==
    /\ auth \in SessionStrategies
    /\ last' = [op |-> "user_id_for_session_id", session_id |-> session_id,
                result |-> user_id_for_session_id(session_id)]
    /\ UNCHANGED <<Config, now, user_id_by_session_id, db, issued, destroyed,
                   PathVars, BasicVars, Storage, collision, threads>>

\* a call of auth.destroy_session(request)
DestroySession(request) ==
    /\ auth \in SessionStrategies
    /\ LET done == destroy_session(request)
       IN  /\ user_id_by_session_id' = done.mapping
           /\ db' = done.db
           /\ destroyed' = IF done.result
                           THEN destroyed \cup {session_cookie(request)}
                           ELSE destroyed
           /\ last' = [op |-> "destroy_session", request |-> request,
                       result |-> done.result, raised |-> done.raised]
    /\ UNCHANGED <<Config, now, issued, PathVars, BasicVars, Storage,
                   collision, threads>>

\* a request passing through the before_request filter
Request(request) ==
    /\ LET decision == authenticate_user(request)
       IN  last' = [op |-> "authenticate_user", request |-> request,
                    consulted |-> decision.consulted,
                    status |-> decision.status,
                    current_user |-> decision.current_user]
    /\ UNCHANGED <<Config, now, user_id_by_session_id, db, issued, destroyed,
                   PathVars, BasicVars, Storage, collision, threads>>

\* the wall clock advances
Tick ==
    /\ now < MaxTime
    /\ now' = now + 1
    /\ last' = [op |-> "tick"]
    /\ UNCHANGED <<Config, user_id_by_session_id, db, issued, destroyed,
                   PathVars, BasicVars, Storage, collision, threads>>

Next ==
    \/ \E user_id \in UserIds \cup {None} : CreateSession(user_id)
    \/ \E session_id \in SessionIds \cup {None, "bogus"} :
           UserIdForSessionId(session_id)
    \/ \E request \in LogoutRequests : DestroySession(request)
    \/ \E request \in (IF auth \in SessionStrategies THEN SessionRequests
                        ELSE Requests) : Request(request)
    \/ Tick

Spec == Init /\ [][Next]_vars

\* the operations of the session store alone, without the request filter
StoreNext ==
    \/ \E user_id \in UserIds \cup {None} : CreateSession(user_id)
    \/ \E session_id \in SessionIds \cup {None, "bogus"} :
           UserIdForSessionId(session_id)
    \/ \E request \in LogoutRequests : DestroySession(request)
    \/ Tick

\* the session store under every configuration, called directly
SpecStore == Init /\ [][StoreNext]_vars

----------------------------------------------------------------------------
(* The server with a durable store that can fail *)

\* the UserSession calls SessionDBAuth makes
UserSessionFaults ==
    {"UserSession.search", "UserSession.save", "UserSession.remove"}

InitFaulty ==
    /\ Init
    /\ auth = "SessionDBAuth"
    /\ SESSION_DURATION \in {None, "1"}

\* the storage starts or stops failing in one of its calls
SetFault(f) ==
    /\ f # fault
    /\ fault' = f
    /\ last' = [op |-> "fault"]
    /\ UNCHANGED <<Config, now, user_id_by_session_id, db, issued, destroyed,
                   PathVars, BasicVars, user_records, collision, threads>>

NextFaulty ==
    \/ StoreNext
    \/ \E f \in UserSessionFaults \cup {"none"} : SetFault(f)

SpecFaulty == InitFaulty /\ [][NextFaulty]_vars

----------------------------------------------------------------------------
(* The server with an id generator that can repeat an id *)

InitCollide ==
    /\ Init
    /\ auth = "SessionExpAuth"

\* the next uuid4() will return session_id once more
Collide(session_id) ==
    /\ collision = None
    /\ session_id \in issued
    /\ collision' = session_id
    /\ last' = [op |-> "collide"]
    /\ UNCHANGED <<Config, now, user_id_by_session_id, db, issued, destroyed,
                   PathVars, BasicVars, Storage, threads>>

NextCollide ==
    \/ StoreNext
    \/ \E session_id \in SessionIds : Collide(session_id)

SpecCollide == InitCollide /\ [][NextCollide]_vars

----------------------------------------------------------------------------
(* Concurrent requests: create_session calls running in threads that        *)
(* interleave between the statements of the in-memory strategies           *)

Threads == 1..MaxThreads

InitConc ==
    /\ AUTH_TYPE \in {"session_auth", "session_exp_auth"}
    /\ auth = SelectAuth(AUTH_TYPE)
    /\ SESSION_DURATION = None
    /\ session_duration = ParseDuration(SESSION_DURATION)
    /\ now = 0
    /\ user_id_by_session_id = <<>>
    /\ db = <<>>
    /\ issued = {}
    /\ destroyed = {}
    /\ last = [op |-> "init"]
    /\ path = ""
    /\ exclusion = ""
    /\ outcome = "unused"
    /\ user_records = UserTable
    /\ fault = "none"
    /\ collision = None
    /\ fn = "unused"
    /\ arg = None
    /\ ret = None
    /\ threads \in [Threads -> [pc : {"called"}, user_id : UserIds \cup {None},
                                session_id : {None}]]

\* everything a step of a thread leaves alone, but the mapping and the ids
ConcFrame ==
    <<Config, now, db, destroyed, last, PathVars, BasicVars, Storage,
      collision>>

\* SessionAuth.create_session: the argument test and str(uuid4())
Generate(t) ==
    /\ threads[t].pc = "called"
    /\ IF threads[t].user_id = None
       THEN /\ threads' = [threads EXCEPT ![t].pc = "returned"]
            /\ UNCHANGED issued
       ELSE /\ threads' = [threads EXCEPT ![t].pc = "generated",
                                          ![t].session_id = uuid4]
            /\ issued' = issued \cup {uuid4}
    /\ UNCHANGED <<ConcFrame, user_id_by_session_id>>

\* SessionAuth.create_session: self.user_id_by_session_id[session_id] =
\* user_id, and the return to SessionExpAuth.create_session or the caller
BaseInsert(t) ==
    /\ threads[t].pc = "generated"
    /\ user_id_by_session_id' =
           Put(user_id_by_session_id, threads[t].session_id,
               [kind |-> "str", user_id |-> threads[t].user_id])
    /\ threads' = [threads EXCEPT ![t].pc = IF auth = "SessionAuth"
                                            THEN "returned"
                                            ELSE "inserted"]
    /\ UNCHANGED <<ConcFrame, issued>>

\* SessionExpAuth.create_session: the entry is replaced by the dictionary
\* holding the creation time, and the id is returned
Stamp(t) ==
    /\ threads[t].pc = "inserted"
    /\ user_id_by_session_id' =
           Put(user_id_by_session_id, threads[t].session_id,
               [kind |-> "dict", user_id |-> threads[t].user_id,
                created_at |-> now])
    /\ threads' = [threads EXCEPT ![t].pc = "returned"]
    /\ UNCHANGED <<ConcFrame, issued>>

TickConc ==
    /\ now < MaxTime
    /\ now' = now + 1
    /\ UNCHANGED <<Config, user_id_by_session_id, db, issued, destroyed, last,
                   PathVars, BasicVars, Storage, collision, threads>>

NextConc ==
    \/ \E t \in Threads : Generate(t)
    \/ \E t \in Threads : BaseInsert(t)
    \/ \E t \in Threads : Stamp(t)
    \/ TickConc

SpecConc == InitConc /\ [][NextConc]_vars

----------------------------------------------------------------------------
(* Concurrent requests: lookups and logouts racing create_session calls    *)
(* under SessionExpAuth.  fn is the position of the lookup in progress and *)
(* arg its session id.                                                     *)

InitRace ==
    /\ AUTH_TYPE = "session_exp_auth"
    /\ auth = SelectAuth(AUTH_TYPE)
    /\ SESSION_DURATION \in {None, "1"}
    /\ session_duration = ParseDuration(SESSION_DURATION)
    /\ now = 0
    /\ user_id_by_session_id = <<>>
    /\ db = <<>>
    /\ issued = {}
    /\ destroyed = {}
    /\ last = [op |-> "init"]
    /\ path = ""
    /\ exclusion = ""
    /\ outcome = "unused"
    /\ user_records = UserTable
    /\ fault = "none"
    /\ collision = None
    /\ fn = "unused"
    /\ arg = None
    /\ ret = None
    /\ threads \in [Threads -> [pc : {"called"}, user_id : UserIds,
                                session_id : {None}]]

\* SessionExpAuth.user_id_for_session_id: the membership test
\* 'session_id in self.user_id_by_session_id'
LookupTest(session_id) ==
    /\ fn = "unused"
    /\ IF session_id \in DOMAIN user_id_by_session_id
       THEN /\ fn' = "found"
            /\ arg' = session_id
            /\ UNCHANGED last
       ELSE /\ last' = [op |-> "user_id_for_session_id",
                        session_id |-> session_id, result |-> None]
            /\ UNCHANGED <<fn, arg>>
    /\ UNCHANGED <<Config, now, user_id_by_session_id, db, issued, destroyed,
                   PathVars, ret, Storage, collision, threads>>

\* SessionExpAuth.user_id_for_session_id: the read
\* 'self.user_id_by_session_id[session_id]' and what follows it
LookupRead ==
    /\ fn = "found"
    /\ last' = [op |-> "user_id_for_session_id", session_id |-> arg,
                result |-> IF arg \in DOMAIN user_id_by_session_id
                           THEN SessionExpAuth_user_id_for_session_id(arg)
                           ELSE "KeyError"]
    /\ fn' = "unused"
    /\ arg' = None
    /\ UNCHANGED <<Config, now, user_id_by_session_id, db, issued, destroyed,
                   PathVars, ret, Storage, collision, threads>>

\* a logout racing the other calls; one whose lookup raises changes nothing
DestroyRace(request) ==
    /\ user_id_for_session_id(session_cookie(request)) # "TypeError"
    /\ DestroySession(request)

NextRace ==
    \/ \E t \in Threads : Generate(t)
    \/ \E t \in Threads : BaseInsert(t)
    \/ \E t \in Threads : Stamp(t)
    \/ \E session_id \in SessionIds : LookupTest(session_id)
    \/ LookupRead
    \/ \E request \in LogoutRequests : DestroyRace(request)
    \/ TickConc

SpecRace == InitRace /\ [][NextRace]_vars

----------------------------------------------------------------------------
(* The request filter on the paths of its exclusion list *)

\* requests to those paths and to a protected one: without credentials,
\* with the password of the stored user, with a token that does not decode,
\* and with a session cookie
ExcludedRequests ==
    [path : ExcludedRequestPaths \cup {"/api/v1/users"},
     Authorization : {None, "Basic Ym9iQGhidG4uaW86cHdkMQ==",
                      "Basic " \o EAcute},
     cookies : {<<>>, [name \in {SESSION_NAME} |-> "s1"]}]

NextExcluded ==
    \/ CreateSession("u1")
    \/ \E request \in ExcludedRequests : Request(request)
    \/ Tick

SpecExcluded == Init /\ [][NextExcluded]_vars

----------------------------------------------------------------------------
(* The server with a durable store, stopped and started again *)

InitRestart ==
    /\ Init
    /\ auth = "SessionDBAuth"

\* the process ends and a new one starts: SessionDBAuth() begins with an
\* empty user_id_by_session_id, the UserSession records are kept
Restart ==
    /\ user_id_by_session_id # <<>>
    /\ user_id_by_session_id' = <<>>
    /\ last' = [op |-> "restart"]
    /\ UNCHANGED <<Config, now, db, issued, destroyed, PathVars, BasicVars,
                   Storage, collision, threads>>

NextRestart ==
    \/ StoreNext
    \/ Restart

SpecRestart == InitRestart /\ [][NextRestart]_vars

----------------------------------------------------------------------------
(* Concurrent logouts: SessionDBAuth.destroy_session calls running in      *)
(* threads that interleave between the record search and the removal       *)

InitDestroy ==
    /\ AUTH_TYPE = "session_db_auth"
    /\ auth = SelectAuth(AUTH_TYPE)
    /\ SESSION_DURATION = None
    /\ session_duration = ParseDuration(SESSION_DURATION)
    /\ now = 0
    /\ user_id_by_session_id = <<>>
    /\ db = <<>>
    /\ issued = {}
    /\ destroyed = {}
    /\ last = [op |-> "init"]
    /\ path = ""
    /\ exclusion = ""
    /\ outcome = "unused"
    /\ user_records = UserTable
    /\ fault = "none"
    /\ collision = None
    /\ fn = "unused"
    /\ arg = None
    /\ ret = None
    /\ threads \in [Threads -> [pc : {"called"},
                                session_id : SessionIds \cup {None},
                                sessions : {<<>>}, result : {FALSE}]]

\* session_id = self.session_cookie(request) and
\* sessions = UserSession.search({'session_id': session_id}), with the
\* return of False when there is none
DestroySearch(t) ==
    /\ threads[t].pc = "called"
    /\ LET sessions == Search(db, threads[t].session_id)
       IN  threads' = [threads EXCEPT
                          ![t].pc = IF Len(sessions) <= 0 THEN "returned"
                                    ELSE "searched",
                          ![t].sessions = sessions]
    /\ UNCHANGED <<Config, now, user_id_by_session_id, db, issued, destroyed,
                   last, PathVars, BasicVars, Storage, collision>>

\* sessions[0].remove() and the return of True; removing a record that is
\* no longer stored changes nothing
DestroyRemove(t) ==
    /\ threads[t].pc = "searched"
    /\ db' = Remove(db, threads[t].sessions[1])
    /\ destroyed' = destroyed \cup {threads[t].session_id}
    /\ threads' = [threads EXCEPT ![t].pc = "returned", ![t].result = TRUE]
    /\ UNCHANGED <<Config, now, user_id_by_session_id, issued, last,
                   PathVars, BasicVars, Storage, collision>>

NextDestroy ==
    \/ CreateSession("u1")
    \/ \E t \in Threads : DestroySearch(t)
    \/ \E t \in Threads : DestroyRemove(t)

SpecDestroy == InitDestroy /\ [][NextDestroy]_vars

----------------------------------------------------------------------------
(* Logging in and out under a session strategy *)

\* the form fields a login request can carry; None is a missing field
Emails == {None, " ", "bob@hbtn.io", "eve@hbtn.io"}
Passwords == {None, " ", "pwd1", "nope"}

InitLogin ==
    /\ AUTH_TYPE \in {"session_auth", "session_exp_auth", "session_db_auth"}
    /\ auth = SelectAuth(AUTH_TYPE)
    /\ SESSION_DURATION = None
    /\ session_duration = ParseDuration(SESSION_DURATION)
    /\ now = 0
    /\ user_id_by_session_id = <<>>
    /\ db = <<>>
    /\ issued = {}
    /\ destroyed = {}
    /\ last = [op |-> "init"]
    /\ path = ""
    /\ exclusion = ""
    /\ outcome = "unused"
    /\ user_records \in UserTables
    /\ fault = "none"
    /\ collision = None
    /\ fn = "unused"
    /\ arg = None
    /\ ret = None
    /\ threads = <<>>

\* a POST to the login view with the given form fields
Login(email, password) ==
    /\ Cardinality(issued) < MaxSessions
    /\ LET answer == login(email, password)
       IN  /\ user_id_by_session_id' = answer.mapping
           /\ db' = answer.db
           /\ issued' = issued \cup DOMAIN answer.mapping
           /\ last' = [op |-> "login", email |-> email,
                       password |-> password, status |-> answer.status,
                       called |-> answer.called, cookie |-> answer.cookie]
    /\ UNCHANGED <<Config, now, destroyed, PathVars, BasicVars, Storage,
                   collision, threads>>

NextLogin ==
    \/ \E email \in Emails, password \in Passwords : Login(email, password)
    \/ \E request \in LogoutRequests : DestroySession(request)
    \/ \E f \in {"none", "User.search"} : SetFault(f)
    \/ Tick

SpecLogin == InitLogin /\ [][NextLogin]_vars

----------------------------------------------------------------------------
(* The path policy on its own: require_auth(path, [exclusion]) *)

InitPath ==
    /\ path \in Paths
    /\ exclusion \in Patterns
    /\ outcome = "pending"
    /\ AUTH_TYPE = None
    /\ auth = "Auth"
    /\ SESSION_DURATION = None
    /\ session_duration = 0
    /\ now = 0
    /\ user_id_by_session_id = <<>>
    /\ db = <<>>
    /\ issued = {}
    /\ destroyed = {}
    /\ last = [op |-> "init"]
    /\ user_records = UserTable
    /\ fault = "none"
    /\ collision = None
    /\ fn = "unused"
    /\ arg = None
    /\ ret = None
    /\ threads = <<>>

CheckPath ==
    /\ outcome = "pending"
    /\ outcome' = require_auth(path, <<exclusion>>)
    /\ UNCHANGED <<Config, now, user_id_by_session_id, db, issued, destroyed,
                   last, path, exclusion, BasicVars, Storage, collision,
                   threads>>

NextPath == CheckPath

SpecPath == InitPath /\ [][NextPath]_vars

----------------------------------------------------------------------------
(* The BasicAuth methods on their own: one call of one method *)

BasicMethods ==
    {"extract_base64_authorization_header",
     "decode_base64_authorization_header", "b64encode",
     "extract_user_credentials", "current_user"}

InitBasic ==
    /\ fn \in BasicMethods
    /\ arg \in (IF fn = "extract_base64_authorization_header" THEN Headers
                ELSE IF fn = "decode_base64_authorization_header" THEN Tokens
                ELSE IF fn = "b64encode" THEN Texts
                ELSE IF fn = "extract_user_credentials"
                THEN Texts \cup {None}
                ELSE CredentialHeaders)
    /\ user_records \in (IF fn = "current_user" THEN UserTables
                         ELSE {UserTable})
    /\ fault \in (IF fn = "current_user" THEN {"none", "User.search"}
                  ELSE {"none"})
    /\ ret = "pending"
    /\ AUTH_TYPE = "basic_auth"
    /\ auth = "BasicAuth"
    /\ SESSION_DURATION = None
    /\ session_duration = 0
    /\ now = 0
    /\ user_id_by_session_id = <<>>
    /\ db = <<>>
    /\ issued = {}
    /\ destroyed = {}
    /\ last = [op |-> "init"]
    /\ path = ""
    /\ exclusion = ""
    /\ outcome = "unused"
    /\ collision = None
    /\ threads = <<>>

\* everything a call of a BasicAuth method leaves alone
BasicFrame ==
    <<Config, now, user_id_by_session_id, db, issued, destroyed, last,
      PathVars, Storage, collision, threads, fn, arg>>

Extract ==
    /\ fn = "extract_base64_authorization_header"
    /\ ret = "pending"
    /\ ret' = extract_base64_authorization_header(arg)
    /\ UNCHANGED BasicFrame

Decode ==
    /\ fn = "decode_base64_authorization_header"
    /\ ret = "pending"
    /\ ret' = decode_base64_authorization_header(arg)
    /\ UNCHANGED BasicFrame

\* a client encodes a text, the server decodes the token
RoundTrip ==
    /\ fn = "b64encode"
    /\ ret = "pending"
    /\ ret' = decode_base64_authorization_header(b64encode(Utf8Encode(arg)))
    /\ UNCHANGED BasicFrame

Split ==
    /\ fn = "extract_user_credentials"
    /\ ret = "pending"
    /\ ret' = extract_user_credentials(arg)
    /\ UNCHANGED BasicFrame

CurrentUser ==
    /\ fn = "current_user"
    /\ ret = "pending"
    /\ ret' = BasicAuth_current_user([path |-> "/api/v1/users",
                                      Authorization |-> arg,
                                      cookies |-> <<>>])
    /\ UNCHANGED BasicFrame

NextBasic == Extract \/ Decode \/ RoundTrip \/ Split \/ CurrentUser

SpecBasic == InitBasic /\ [][NextBasic]_vars

----------------------------------------------------------------------------
(* Password hashing, 0x00-personal_data/encrypt_password.py *)

\* the number of leading password bytes bcrypt feeds to its key schedule
BCRYPT_MAX_BYTES == 72

First(bytes, n) == SubSeq(bytes, 1, IF Len(bytes) < n THEN Len(bytes) ELSE n)

\* bcrypt.gensalt(): a salt no earlier call has returned
gensalt == Len(ret) + 1

\* bcrypt.hashpw(password, salt).  The digest embeds the salt and is a
\* one-way image of the salt and of the bytes the key schedule reads; it is
\* denoted by that pair.  A password longer than 72 bytes is cut to 72
\* bytes by the releases before 5.0 and refused with ValueError since.
hashpw(password, salt) ==
    IF Len(password) > BCRYPT_MAX_BYTES /\ fault = "bcrypt.hashpw"
    THEN [raised |-> "ValueError", salt |-> 0, key |-> <<>>]
    ELSE [raised |-> None, salt |-> salt,
          key |-> First(password, BCRYPT_MAX_BYTES)]

\* bcrypt.checkpw(password, hashed_password): the password is hashed with
\* the salt the digest embeds and the two digests are compared
checkpw(password, hashed_password) ==
    LET again == hashpw(password, hashed_password.salt)
    IN  IF again.raised # None THEN again.raised
        ELSE IF again = hashed_password THEN "True"
        ELSE "False"

RECURSIVE Repeat(_, _)
Repeat(c, n) == IF n = 0 THEN "" ELSE c \o Repeat(c, n - 1)

\* plaintexts: short ones, and ones that reach past the 72nd byte
PlainChars == {"a", EAcute}
Plaintexts ==
    {Repeat("a", n) \o t : n \in {0, BCRYPT_MAX_BYTES - 1},
                           t \in StringsUpTo(PlainChars, MaxPlainLen)}

\* password.encode('utf-8'), evaluated once per plaintext
PlaintextBytes == [p \in Plaintexts |-> Utf8Encode(p)]

hash_password(password) == hashpw(PlaintextBytes[password], gensalt)

is_valid(hashed_password, password) ==
    checkpw(PlaintextBytes[password], hashed_password)

\* arg is the plaintext being hashed and ret the digests returned for it
InitPassword ==
    /\ fn = "hash_password"
    /\ arg \in Plaintexts
    /\ ret = <<>>
    /\ fault \in {"none", "bcrypt.hashpw"}
    /\ user_records = UserTable
    /\ AUTH_TYPE = None
    /\ auth = "Auth"
    /\ SESSION_DURATION = None
    /\ session_duration = 0
    /\ now = 0
    /\ user_id_by_session_id = <<>>
    /\ db = <<>>
    /\ issued = {}
    /\ destroyed = {}
    /\ last = [op |-> "init"]
    /\ path = ""
    /\ exclusion = ""
    /\ outcome = "unused"
    /\ collision = None
    /\ threads = <<>>

PasswordFrame ==
    <<Config, now, user_id_by_session_id, db, issued, destroyed, PathVars,
      Storage, collision, threads, fn, arg>>

\* a call of hash_password(arg)
HashPassword ==
    /\ Len(ret) < MaxDigests
    /\ ret' = Append(ret, hash_password(arg))
    /\ last' = [op |-> "hash_password", password |-> arg,
                raised |-> hash_password(arg).raised]
    /\ UNCHANGED PasswordFrame

\* a call of is_valid(hashed_password, password) on a digest of arg
IsValid(hashed_password, password) ==
    /\ hashed_password.raised = None
    /\ last' = [op |-> "is_valid", hashed_password |-> hashed_password,
                password |-> password,
                result |-> is_valid(hashed_password, password)]
    /\ UNCHANGED <<PasswordFrame, ret>>

NextPassword ==
    \/ HashPassword
    \/ \E i \in 1..Len(ret), password \in Plaintexts :
           IsValid(ret[i], password)

SpecPassword == InitPassword /\ [][NextPassword]_vars

----------------------------------------------------------------------------
(* Properties of the request filter and the strategy selection *)

\* C1: for a request to a path that requires authentication under the
\* active strategy, the filter answers 401 iff the request carries neither
\* an Authorization header nor the session cookie; otherwise 403 iff
\* current_user(request) is none; otherwise the request goes on with
\* request.current_user set to the resolved user.
C1_FilterDecision ==
    (/\ last.op = "authenticate_user"
     /\ auth # "NoAuth"
     /\ FilterRequireAuth[last.request.path] = "True")
    => /\ (last.status = "401") <=>
              (/\ authorization_header(last.request) = None
               /\ session_cookie(last.request) = None)
       /\ last.status # "401" =>
              ((last.status = "403") <=> (current_user(last.request) = None))
       /\ last.status \notin {"401", "403"} =>
              /\ last.status = "next"
              /\ last.current_user # None
              /\ last.current_user = current_user(last.request)

\* a request bearing a live session cookie was admitted as its user
C1_Witness ==
    /\ last.op = "authenticate_user"
    /\ auth \in SessionStrategies
    /\ FilterRequireAuth[last.request.path] = "True"
    /\ session_cookie(last.request) # None
    /\ last.status = "next"
    /\ last.current_user = "u1"

\* the AUTH_TYPE values the configuration surface of the specification names
SpecAuthTypes == {"none", "basic", "session", "session_exp", "session_db"}

\* the AUTH_TYPE values app.py compares against
CodeAuthTypes ==
    {"auth", "basic_auth", "session_auth", "session_exp_auth",
     "session_db_auth"}

ConsultedWhenRequired ==
    (last.op = "authenticate_user"
        /\ FilterRequireAuth[last.request.path] = "True")
    => last.consulted

\* C7 as stated: for AUTH_TYPE in none, basic, session, session_exp,
\* session_db, and when it is absent, one strategy is active and it is
\* consulted for every request to a path that is not excluded.
C7_SpecValuesSelectAStrategy ==
    (/\ AUTH_TYPE \in SpecAuthTypes \cup {None}
     /\ last.op = "authenticate_user"
     /\ FilterRequireAuth[last.request.path] = "True")
    => (auth # "NoAuth" /\ last.consulted)

\* C7 amended: for the AUTH_TYPE values the code recognises (auth,
\* basic_auth, session_auth, session_exp_auth, session_db_auth) and when it
\* is absent, one strategy is active and it is consulted for every request
\* to a path that is not excluded; the values none, basic, session,
\* session_exp, session_db leave no strategy active and every request
\* passes the filter without being authenticated.
C7_CodeValuesSelectAStrategy ==
    /\ AUTH_TYPE \in CodeAuthTypes \cup {None}
       => (auth # "NoAuth" /\ ConsultedWhenRequired)
    /\ AUTH_TYPE \in SpecAuthTypes
       => /\ auth = "NoAuth"
          /\ last.op = "authenticate_user"
             => (~last.consulted /\ last.status = "next")

\* under session_db_auth a request to a protected path reached current_user
C7_Witness ==
    /\ AUTH_TYPE = "session_db_auth"
    /\ last.op = "authenticate_user"
    /\ FilterRequireAuth[last.request.path] = "True"
    /\ last.consulted

----------------------------------------------------------------------------
(* Properties of the session stores *)

\* C2: under SessionExpAuth and SessionDBAuth, create_session(u) for a
\* string u returns a non-empty session id, and user_id_for_session_id on
\* that id, with no clock advance and no destroy in between, returns u.
C2_CreateThenResolve ==
    (/\ auth \in ExpiringStrategies
     /\ last.op = "create_session"
     /\ last.user_id # None)
    => /\ last.result \notin {None, ""}
       /\ user_id_for_session_id(last.result) = last.user_id

\* C3: under SessionExpAuth a lookup of a known session id returns the
\* owning user id at every time when the duration is <= 0, and when the
\* duration is positive returns it iff now <= created_at + duration and
\* none after that instant.
C3_ExpiryRule ==
    (/\ auth = "SessionExpAuth"
     /\ last.op = "user_id_for_session_id"
     /\ last.session_id \in DOMAIN user_id_by_session_id)
    => LET session == user_id_by_session_id[last.session_id]
       IN  last.result =
               IF session_duration <= 0 THEN session.user_id
               ELSE IF now <= session.created_at + session_duration
                    THEN session.user_id
                    ELSE None

\* a lookup found a known session past created_at + duration
C3_Witness ==
    /\ auth = "SessionExpAuth"
    /\ last.op = "user_id_for_session_id"
    /\ last.session_id \in DOMAIN user_id_by_session_id
    /\ session_duration > 0
    /\ now > user_id_by_session_id[last.session_id].created_at
                + session_duration
    /\ last.result = None

\* C4: SessionDBAuth.user_id_for_session_id and
\* SessionExpAuth.user_id_for_session_id agree, for every duration and
\* clock value, on whether a session created at the same instant resolves
\* (SessionDBAuth.create_session writes both the in-memory entry and the
\* durable record at that instant).
C4_SameExpiryArithmetic ==
    auth = "SessionDBAuth"
    => \A session_id \in DOMAIN user_id_by_session_id :
           Len(Search(db, session_id)) > 0
           => ((SessionExpAuth_user_id_for_session_id(session_id) # None)
               <=> (SessionDBAuth_user_id_for_session_id(session_id) # None))

\* C5: SessionDBAuth.destroy_session on a request whose session cookie
\* names an existing session returns true and every later
\* user_id_for_session_id on that id returns none; on a request with no
\* session cookie, or with no request, it returns false and removes
\* nothing.
C5_DestroyRevokes ==
    [][ /\ (auth = "SessionDBAuth" /\ last'.op = "destroy_session")
           => /\ \A session_id \in SessionIds :
                     (/\ session_cookie(last'.request) = session_id
                      /\ Len(Search(db, session_id)) > 0)
                     => /\ last'.result = TRUE
                        /\ SessionDBAuth_user_id_for_session_id(session_id)'
                               = None
              /\ (session_cookie(last'.request) = None)
                 => /\ last'.result = FALSE
                    /\ db' = db
                    /\ user_id_by_session_id' = user_id_by_session_id
        /\ auth = "SessionDBAuth"
           => \A session_id \in destroyed' :
                  SessionDBAuth_user_id_for_session_id(session_id)' = None
      ]_vars

\* a destroy of an existing durable session succeeded, and a later lookup
\* of that id has been answered
C5_Witness ==
    /\ auth = "SessionDBAuth"
    /\ last.op = "user_id_for_session_id"
    /\ last.session_id \in destroyed
    /\ last.result = None

Resolves(session_id) == user_id_for_session_id(session_id) # None

\* C6: once an issued session id does not resolve (expired or destroyed),
\* no later create_session, user_id_for_session_id, destroy_session or
\* clock advance makes user_id_for_session_id return a user id for it.
C6_NoReturnToActive ==
    [][ \A session_id \in issued :
            ~Resolves(session_id) => ~Resolves(session_id)' ]_vars

\* a session was created while an earlier one was already expired or
\* destroyed
C6_Witness ==
    /\ last.op = "create_session"
    /\ last.result # None
    /\ \E session_id \in issued \ {last.result} : ~Resolves(session_id)

\* C16: SessionDBAuth.create_session and destroy_session let no exception
\* cross the component boundary: when a durable-storage call they make
\* (search, save, remove) fails, create_session returns none and
\* destroy_session returns false.
C16_StorageFailuresAreReported ==
    auth = "SessionDBAuth"
    => /\ last.op = "create_session"
          => /\ last.raised = None
             /\ (fault = "UserSession.save" /\ last.user_id # None)
                => last.result = None
       /\ last.op = "destroy_session"
          => /\ last.raised = None
             /\ fault \in {"UserSession.search", "UserSession.remove"}
                => last.result = FALSE

\* C17: no create_session call changes the owner or the creation time
\* recorded for a session id that is already in the mapping, also when
\* the id generator returns that id again.
C17_IssuedSessionsKeepOwner ==
    [][ (auth = "SessionExpAuth" /\ last'.op = "create_session")
        => \A session_id \in DOMAIN user_id_by_session_id :
               /\ session_id \in DOMAIN user_id_by_session_id'
               /\ user_id_by_session_id'[session_id]
                      = user_id_by_session_id[session_id] ]_vars

\* C19: SessionDBAuth.create_session writes a durable record
\* {session_id, user_id} iff the inherited in-memory creation returned a
\* string id: for an argument the in-memory step refuses it returns none
\* and leaves the durable store unchanged, and otherwise the record of the
\* returned id exists when the id is returned.
C19_DurableRecordIffCreated ==
    [][ (auth = "SessionDBAuth" /\ last'.op = "create_session")
        => IF SessionExpAuth_create_session(last'.user_id).session_id = None
           THEN /\ last'.result = None
                /\ db' = db
           ELSE /\ last'.result
                       = SessionExpAuth_create_session(last'.user_id).session_id
                /\ db' = Append(db, [session_id |-> last'.result,
                                      user_id |-> last'.user_id,
                                      created_at |-> now])
                /\ Len(Search(db', last'.result)) > 0 ]_vars

\* a durable session was created after an earlier one
C19_Witness ==
    /\ auth = "SessionDBAuth"
    /\ last.op = "create_session"
    /\ last.result = "s2"
    /\ Len(Search(db, "s2")) = 1
    /\ Search(db, "s2")[1].user_id = last.user_id

\* the credentials verify: both fields are non-blank, the lookup returns at
\* least one user and the password validates against the first
Verified(email, password) ==
    /\ ~Blank(email)
    /\ ~Blank(password)
    /\ fault # "User.search"
    /\ Len(UserSearch(email)) > 0
    /\ is_valid_password(UserSearch(email)[1], password)

\* C20: in the login view create_session is called and the session cookie
\* is set iff email and password are non-blank, the user lookup returns at
\* least one user and the password validates; every other outcome (400
\* missing field, 404 no user or lookup exception, 401 wrong password)
\* creates no session and sets no cookie.
C20_SessionOnlyOnVerifiedLogin ==
    [][ last'.op = "login"
        => /\ (last'.called /\ last'.cookie # None)
                  <=> Verified(last'.email, last'.password)
           /\ Verified(last'.email, last'.password)
              => /\ last'.status = "200"
                 /\ last'.cookie \in DOMAIN user_id_by_session_id'
                 /\ last'.cookie \notin issued
           /\ ~Verified(last'.email, last'.password)
              => /\ last'.status \in {"400", "404", "401"}
                 /\ last'.status = "400"
                       <=> (Blank(last'.email) \/ Blank(last'.password))
                 /\ ~last'.called
                 /\ last'.cookie = None
                 /\ user_id_by_session_id' = user_id_by_session_id
                 /\ db' = db
                 /\ issued' = issued ]_vars

\* a wrong password was refused after an earlier login had succeeded
C20_Witness ==
    /\ last.op = "login"
    /\ last.email = "bob@hbtn.io"
    /\ last.password = "nope"
    /\ last.status = "401"
    /\ issued # {}

AllReturned == \A t \in Threads : threads[t].pc = "returned"

\* C18: for every interleaving of concurrent create_session(u_i) calls,
\* after all have returned each returned id is in the in-memory mapping,
\* is owned by and resolves to its own u_i, and no two calls returned the
\* same id.
C18_ConcurrentCreatesKeepInserts ==
    AllReturned
    => \A t \in Threads :
           /\ (threads[t].session_id # None) <=> (threads[t].user_id # None)
           /\ threads[t].session_id # None
              => /\ threads[t].session_id \in DOMAIN user_id_by_session_id
                 /\ user_id_by_session_id[threads[t].session_id].user_id
                        = threads[t].user_id
                 /\ user_id_for_session_id(threads[t].session_id)
                        = threads[t].user_id
                 /\ \A other \in Threads \ {t} :
                        threads[other].session_id # threads[t].session_id

\* two calls overlapped: the one that drew its id first stored it last
C18_Witness ==
    /\ auth = "SessionExpAuth"
    /\ AllReturned
    /\ threads[1].session_id = "s2"
    /\ threads[2].session_id = "s1"
    /\ user_id_by_session_id["s1"].created_at
           > user_id_by_session_id["s2"].created_at

----------------------------------------------------------------------------
(* Properties of the path policy, checked under SpecPath *)

RECURSIVE Literal(_)
\* no character of s has a meaning in a regular expression
Literal(s) ==
    IF s = "" THEN TRUE
    ELSE Head(s) \notin {".", "*"} /\ Literal(Tail(s))

Checked == outcome # "pending"

\* C8: for an exclusion pattern ending with '/', require_auth(path,
\* [pattern]) returns false iff path starts with the pattern with its
\* trailing '/' stripped, followed by '/'.
C8_TrailingSlashNeedsSeparator ==
    (/\ Checked
     /\ exclusion # ""
     /\ Strip(exclusion) = exclusion
     /\ Literal(exclusion)
     /\ LastChar(exclusion) = "/")
    => ((outcome = "False") <=> StartsWith(path, ButLast(exclusion) \o "/"))

C10_WildcardIsLiteralPrefix ==
    (/\ Checked
     /\ exclusion # ""
     /\ Strip(exclusion) = exclusion
     /\ LastChar(exclusion) = "*")
    => ((outcome = "False") <=> StartsWith(path, ButLast(exclusion)))

\* C11: require_auth is total: for every path and every exclusion string,
\* empty and whitespace-only ones included, it returns a boolean and raises
\* nothing.
C11_RequireAuthTotal == Checked => outcome \in {"True", "False"}

----------------------------------------------------------------------------
(* Properties of the BasicAuth methods, checked under SpecBasic *)

Called == ret # "pending"

\* C12 as stated: extract_base64_authorization_header returns t for every
\* header "Basic " + t, and none for "Bearer " + t and for a header that
\* is not a string.
C12_ExtractReturnsToken ==
    (fn = "extract_base64_authorization_header" /\ Called)
    => /\ arg = None => ret = None
       /\ \A t \in HeaderTokens :
              /\ arg = "Basic " \o t => ret = t
              /\ arg = "Bearer " \o t => ret = None

\* C12 amended: for a header "Basic " + t the result is t without its
\* trailing whitespace when that is non-empty and holds no line break, and
\* none otherwise (an empty or whitespace-only t included); "Bearer " + t
\* and a header that is not a string give none.
C12_ExtractReturnsTrimmedToken ==
    (fn = "extract_base64_authorization_header" /\ Called)
    => /\ arg = None => ret = None
       /\ \A t \in HeaderTokens :
              /\ arg = "Basic " \o t
                 => ret = IF RStrip(t) # "" /\ NoLineBreak(RStrip(t))
                          THEN RStrip(t)
                          ELSE None
              /\ arg = "Bearer " \o t => ret = None

\* a token followed by a blank came back without the blank
C12_Witness ==
    /\ fn = "extract_base64_authorization_header"
    /\ arg = "Basic Y= "
    /\ ret = "Y="

\* C13 as stated: for every decoded text holding a ':' the result is
\* (the text before the first ':', the text after it), and a text with no
\* ':' gives (none, none).
C13_SplitsOnFirstColon ==
    (fn = "extract_user_credentials" /\ Called /\ arg # None)
    => LET colon == FirstColon(arg, 1)
       IN  ret = IF colon > 0
                 THEN <<SubSeq(arg, 1, colon - 1),
                        SubSeq(arg, colon + 1, Len(arg))>>
                 ELSE <<None, None>>

\* the ways to cut text into identifier ':' secret that the pattern
\* admits: no ':' in a non-empty identifier, a non-empty secret with no
\* line break
Cuts(text) ==
    {i \in 2..(Len(text) - 1) :
        /\ SubSeq(text, i, i) = ":"
        /\ FirstColon(SubSeq(text, 1, i - 1), 1) = 0
        /\ NoLineBreak(SubSeq(text, i + 1, Len(text)))}

\* C13 amended: the decoded text is trimmed of surrounding whitespace; when
\* the trimmed text has a non-empty part before its first ':' and a
\* non-empty part without line break after it, the result is (the part
\* before, the part after), further ':' staying in the secret; every other
\* text (no ':', nothing before the first ':', nothing after it) and a
\* value that is not a string give (none, none).
C13_SplitsTrimmedOnFirstColon ==
    (fn = "extract_user_credentials" /\ Called)
    => IF arg = None THEN ret = <<None, None>>
       ELSE LET text == Strip(arg)
            IN  /\ Cuts(text) = {} => ret = <<None, None>>
                /\ \A i \in Cuts(text) :
                       ret = <<SubSeq(text, 1, i - 1),
                               SubSeq(text, i + 1, Len(text))>>

\* a text with two ':' was cut at the first
C13_Witness ==
    /\ fn = "extract_user_credentials"
    /\ arg = "a:a:a"
    /\ Called
    /\ ret = <<"a", "a:a">>

\* C14: decode_base64_authorization_header is a total round trip: the
\* token that encodes a text decodes to that text, and a token that is
\* malformed base64, or decodes to invalid UTF-8, or is not a string, gives
\* none and nothing is raised to the caller.
C14_DecodeTotalRoundTrip ==
    Called
    => /\ fn = "b64encode" => ret = arg
       /\ fn = "decode_base64_authorization_header"
          => /\ ret # "ValueError"
             /\ arg = None => ret = None
             /\ (arg # None /\ b64decode(arg) \in {BinasciiError, ValueError})
                => ret = None
             /\ (arg # None /\ b64decode(arg) \notin {BinasciiError, ValueError}
                   /\ Utf8Decode(b64decode(arg)) = "UnicodeDecodeError")
                => ret = None

\* the credentials the header chain yields for a header
HeaderCredentials(header) ==
    extract_user_credentials(
        decode_base64_authorization_header(
            extract_base64_authorization_header(header)))

\* C15: BasicAuth.current_user returns a user only when the header chain
\* yields (identifier, secret), the lookup by identifier returns exactly
\* one match and the secret verifies against it; in every other case,
\* a lookup exception and several matches included, it returns none, and
\* it never propagates an exception.
C15_UserOnlyOnSingleVerifiedMatch ==
    (fn = "current_user" /\ Called)
    => /\ ret # "ValueError"
       /\ ret # None
          => /\ fault = "none"
             /\ HeaderCredentials(arg) # <<None, None>>
             /\ Len(UserSearch(HeaderCredentials(arg)[1])) = 1
             /\ is_valid_password(UserSearch(HeaderCredentials(arg)[1])[1],
                                  HeaderCredentials(arg)[2])

----------------------------------------------------------------------------
(* Properties of a session from login to logout, checked under Spec *)

\* create_session(user_id) returned session_id: the in-memory mapping
\* holds every returned id with its user until a logout deletes the entry
ReturnedFor(session_id, user_id) ==
    /\ session_id \in issued
    /\ session_id \in DOMAIN user_id_by_session_id
    /\ user_id_by_session_id[session_id].user_id = user_id

\* the session is past its lifetime: the duration is positive and the clock
\* has passed created_at + duration
Expired(session_id) ==
    /\ session_duration > 0
    /\ session_id \in DOMAIN user_id_by_session_id
    /\ user_id_by_session_id[session_id].kind = "dict"
    /\ now > user_id_by_session_id[session_id].created_at + session_duration

\* the ids of the stored users
StoredUserIds == {user_records[i].id : i \in 1..Len(user_records)}

\* C21: under a session strategy a request to a protected path bearing
\* session cookie s is admitted as user u iff s was returned by
\* create_session(u) and the session has been neither destroyed by a logout
\* nor expired; after a logout that returned success every later request
\* bearing s is rejected with 403 and never admitted.
C21_AdmittedUntilLogoutOrExpiry ==
    (/\ auth \in SessionStrategies
     /\ last.op = "authenticate_user"
     /\ FilterRequireAuth[last.request.path] = "True"
     /\ session_cookie(last.request) # None)
    => LET s == session_cookie(last.request)
       IN  /\ \A u \in StoredUserIds :
                  (last.status = "next" /\ last.current_user = u)
                  <=> (/\ ReturnedFor(s, u)
                       /\ s \notin destroyed
                       /\ ~Expired(s))
           /\ s \in destroyed => last.status = "403"

----------------------------------------------------------------------------
(* Properties of the password hashing, checked under SpecPassword *)

\* C22: for all plaintexts p and p2, is_valid(hash_password(p), p2) is true
\* iff p = p2, for every digest hash_password returned for p; two
\* hash_password(p) calls return different digests.
C22_VerifiesExactlyThePlaintext ==
    /\ \A i \in 1..Len(ret) : ret[i].raised = None
    /\ \A i, j \in 1..Len(ret) : i # j => ret[i] # ret[j]
    /\ last.op = "is_valid"
       => /\ last.result \in {"True", "False"}
          /\ (last.result = "True") <=> (last.password = arg)

----------------------------------------------------------------------------
(* Properties of lookups racing other calls, checked under SpecRace *)

\* C23: user_id_for_session_id never raises and returns either none or the
\* owning user id in every interleaving with concurrent create_session and
\* destroy_session calls, including a lookup of an id whose create_session
\* has stored the inherited entry and not yet the dictionary with user_id
\* and created_at.
C23_LookupTotalUnderRaces ==
    last.op = "user_id_for_session_id"
    => \/ last.result = None
       \/ \E t \in Threads :
              /\ threads[t].session_id = last.session_id
              /\ threads[t].user_id = last.result

----------------------------------------------------------------------------
(* Properties of expiry, checked under SpecStore *)

\* the step takes the entry or a durable record of session_id away
RecordRemoved(session_id) ==
    \/ /\ session_id \in DOMAIN user_id_by_session_id
       /\ session_id \notin DOMAIN user_id_by_session_id'
    \/ Len(Search(db', session_id)) < Len(Search(db, session_id))

\* C24: expiry is lazy and read-only: user_id_for_session_id leaves the
\* in-memory mapping and the durable store unchanged for every argument,
\* also when it finds the session expired; the record of a session, expired
\* or not, is removed only by a destroy_session call for that session.
C24_LookupLeavesRecords ==
    [][ /\ last'.op = "user_id_for_session_id"
           => /\ user_id_by_session_id' = user_id_by_session_id
              /\ db' = db
        /\ \A session_id \in SessionIds :
               RecordRemoved(session_id)
               => /\ last'.op = "destroy_session"
                  /\ last'.result = TRUE
                  /\ session_cookie(last'.request) = session_id ]_vars

\* a lookup found a durable session expired, and its record and its entry
\* are still there
C24_Witness ==
    /\ auth = "SessionDBAuth"
    /\ last.op = "user_id_for_session_id"
    /\ last.session_id \in SessionIds
    /\ Expired(last.session_id)
    /\ last.result = None
    /\ Len(Search(db, last.session_id)) = 1
    /\ last.session_id \in DOMAIN user_id_by_session_id

----------------------------------------------------------------------------
(* Properties of the exclusion list, checked under SpecExcluded *)

\* the path is one the exclusion list names: it starts with an entry of the
\* list, or is an entry short of its trailing slash
NamedByExclusionList(p) ==
    \E i \in DOMAIN excluded_paths :
        StartsWith(p, excluded_paths[i]) \/ p = ButLast(excluded_paths[i])

\* C25: a request whose path matches one of the filter's excluded paths
\* (/api/v1/status/, /api/v1/unauthorized/, /api/v1/forbidden/,
\* /api/v1/auth_session/login/) is never rejected with 401 or 403 by the
\* request filter and current_user is not consulted for it, whatever
\* credentials the request carries or lacks.
C25_ExcludedPathsPass ==
    (/\ last.op = "authenticate_user"
     /\ \/ NamedByExclusionList(last.request.path)
        \/ FilterRequireAuth[last.request.path] = "False")
    => /\ last.status = "next"
       /\ ~last.consulted

\* a request without credentials reached the login path under a strategy
\* that answers 401 on a protected path
C25_Witness ==
    /\ auth \in {"Auth", "BasicAuth"} \cup SessionStrategies
    /\ last.op = "authenticate_user"
    /\ last.request.path = "/api/v1/auth_session/login/"
    /\ authorization_header(last.request) = None
    /\ session_cookie(last.request) = None
    /\ last.status = "next"
    /\ ~last.consulted

----------------------------------------------------------------------------
(* Properties of the durable sessions, checked under SpecRestart *)

\* C26: in SessionDBAuth session resolution depends only on the durable
\* store, the clock and the duration: emptying the in-memory mapping
\* (process restart) changes the resolution of no session id, so a session
\* created before it still resolves to its user afterwards; and a session
\* whose durable record destroy_session removed does not resolve although
\* the in-memory entry the inherited create_session wrote is still there.
C26_ResolutionIgnoresMapping ==
    [][ /\ last'.op = "restart"
           => \A session_id \in SessionIds \cup {None, "bogus"} :
                  SessionDBAuth_user_id_for_session_id(session_id)'
                      = SessionDBAuth_user_id_for_session_id(session_id)
        /\ (last'.op = "destroy_session" /\ last'.result = TRUE)
           => /\ user_id_by_session_id' = user_id_by_session_id
              /\ \A session_id \in SessionIds :
                     session_cookie(last'.request) = session_id
                     => SessionDBAuth_user_id_for_session_id(session_id)'
                            = None
        /\ last'.op = "user_id_for_session_id"
           => /\ last'.result # None
                 => /\ Len(Search(db, last'.session_id)) > 0
                    /\ last'.result = Search(db, last'.session_id)[1].user_id
              /\ last'.session_id \in destroyed => last'.result = None
      ]_vars

\* a session created before a restart resolved to its user after it
C26_Witness ==
    /\ last.op = "user_id_for_session_id"
    /\ last.session_id \in issued
    /\ last.session_id \notin DOMAIN user_id_by_session_id
    /\ last.result = "u1"

----------------------------------------------------------------------------
(* Properties of concurrent logouts, checked under SpecDestroy *)

\* the destroy_session calls for session_id that returned True
ReturnedTrue(session_id) ==
    {t \in Threads : threads[t].session_id = session_id /\ threads[t].result}

\* C27: each session is destroyed at most once: among the
\* SessionDBAuth.destroy_session calls for requests bearing the same
\* session cookie, sequential or interleaved between the record search and
\* the record removal, exactly one returns true when the session is
\* destroyed, and all others return false.
C27_DestroyedAtMostOnce ==
    AllReturned
    => \A session_id \in SessionIds :
           /\ Cardinality(ReturnedTrue(session_id)) <= 1
           /\ session_id \in destroyed
              <=> Cardinality(ReturnedTrue(session_id)) = 1

====
